---- MODULE Spec2Model ----
(***************************************************************************)
(* State-machine model of neurokit2.microstates.microstates_segment        *)
(* (src/neurokit2/microstates/microstates_segment.py).                     *)
(*                                                                         *)
(* One invocation walks the positions                                      *)
(*   cluster -> score -> select -> output -> returned | raised             *)
(* and the caller may invoke the function a second time, either with the   *)
(* very same arguments or with n_runs set to 1.                            *)
(*                                                                         *)
(* Python lists, arrays and labels are 0-based; TLA+ sequences are 1-based.*)
(* Labels and indices are stored with their Python (0-based) values, and a *)
(* sequence is indexed with value + 1.                                     *)
(***************************************************************************)
EXTENDS Integers, Sequences, FiniteSets

VARIABLES
    \* arguments of the invocation
    data, indices, method, criterion, n_runs, n_microstates, seed, seed_is_object,
    \* the random stream `seed` refers to after line 148 (the caller's own object
    \* when a RandomState was passed)
    rng,
    \* position in the function body, loop variable, raised exception
    pc, i, exc,
    \* locals of microstates_segment
    segmentation, microstates, info,
    segmentation_list, microstates_list, cv_list, gev_list,
    optimal, best, ret,
    \* history: one record per call of the clustering engine, and the number of
    \* draws taken from the stream during the invocation
    runs, n_draws,
    \* the caller: which invocation this is, and the outcome of the first one
    second, first

args == <<data, indices, method, criterion, n_microstates, seed, seed_is_object>>

locals == <<segmentation, microstates, info, segmentation_list, microstates_list,
            cv_list, gev_list, optimal, best, ret>>

vars == <<args, n_runs, rng, pc, i, exc, locals, runs, n_draws, second, first>>

(***************************************************************************)
(* Bounds of the model.                                                    *)
(***************************************************************************)
NTimes == 3      \* time samples of the signal matrix
MaxRuns == 2     \* largest n_runs tried

(***************************************************************************)
(* Input domains.                                                          *)
(***************************************************************************)
\* The 4-channel topographies the signal is built from: one, the same with the
\* opposite polarity, and another one of a different norm.
Topos == { <<1, -1, 0, 0>>, <<-1, 1, 0, 0>>, <<1, 0, -1, 1>> }
\* The method names tried: one of each list, and one no list holds.
Methods == {"kmod", "ica", "principal component", "kmeans"}
\* Line 151.
KmodNames == {"kmods", "kmod", "kmeans modified", "modified kmeans"}
\* Line 157.
IcaNames == {"ica", "independent component", "independent component analysis"}
\* Line 161.
PcaNames == {"pca", "principal component analysis", "principal component"}
Criteria == {"gev", "cv", "aic"}
\* The seed argument: <<value, whether it is a RandomState object built from value>>.
SeedArgs == {<<0, FALSE>>, <<1, FALSE>>, <<0, TRUE>>}
NMicrostates == {1, 2}
UNBOUND == <<>>    \* a local that was never assigned (an index: -1)

(***************************************************************************)
(* Arithmetic helpers.                                                     *)
(***************************************************************************)
Abs(x) == IF x < 0 THEN -x ELSE x

RECURSIVE SumTo(_, _)
\* f[1] + ... + f[n]
SumTo(f, n) == IF n = 0 THEN 0 ELSE f[n] + SumTo(f, n - 1)

RECURSIVE ProdTo(_, _)
ProdTo(f, n) == IF n = 0 THEN 1 ELSE f[n] * ProdTo(f, n - 1)

Dot(a, b) == SumTo([c \in 1..Len(a) |-> a[c] * b[c]], Len(a))

\* A score is the exact fraction <<numerator, denominator>>, denominator > 0.
QLess(a, b) == a[1] * b[2] < b[1] * a[2]

(***************************************************************************)
(* numpy helpers.                                                          *)
(***************************************************************************)
RECURSIVE ScanMaxInt(_, _, _)
\* Linear scan of s[k..]: the 1-based position of the first largest entry.
ScanMaxInt(s, k, cur) ==
    IF k > Len(s) THEN cur
    ELSE ScanMaxInt(s, k + 1, IF s[k] > s[cur] THEN k ELSE cur)

\* np.argmax of a non-empty integer vector: first occurrence, 0-based.
np_argmax_int(s) == ScanMaxInt(s, 2, 1) - 1

RECURSIVE ScanMaxQ(_, _, _)
ScanMaxQ(s, k, cur) ==
    IF k > Len(s) THEN cur
    ELSE ScanMaxQ(s, k + 1, IF QLess(s[cur], s[k]) THEN k ELSE cur)

RECURSIVE ScanMinQ(_, _, _)
ScanMinQ(s, k, cur) ==
    IF k > Len(s) THEN cur
    ELSE ScanMinQ(s, k + 1, IF QLess(s[k], s[cur]) THEN k ELSE cur)

\* np.argmax / np.argmin of a non-empty list of scores: first occurrence, 0-based.
np_argmax(s) == ScanMaxQ(s, 2, 1) - 1
np_argmin(s) == ScanMinQ(s, 2, 1) - 1

(***************************************************************************)
(* The random stream: numpy's RandomState, a Mersenne Twister (MT19937).   *)
(* A stream is the seed it was started from and the number of 32-bit words *)
(* taken from it so far.  The words an integer seed produces are tabulated *)
(* (their low-order byte: no mask used below is wider).                    *)
(***************************************************************************)
\* The low-order byte of the first 32-bit outputs of MT19937 seeded with 0.
MTWords0 ==
    <<
       172, 47, 117, 192, 67, 251, 195, 103, 9, 211, 21, 242, 36, 87, 70, 216,
       88, 140, 58, 193, 230, 39, 87, 174, 88, 81, 165, 25, 77, 72, 9, 148,
       115, 208, 243, 197, 254, 79, 175, 192, 82, 99, 216, 177, 243, 29, 147, 147,
       142, 167, 32, 193, 9, 185, 127, 32, 31, 202, 244, 151, 163, 254, 203, 114
    >>

\* The same for the seed 1.
MTWords1 ==
    <<
       37, 235, 140, 72, 255, 137, 203, 133, 79, 192, 144, 129, 204, 71, 237, 252,
       134, 25, 178, 20, 254, 101, 146, 212, 139, 252, 234, 156, 157, 142, 50, 68,
       215, 215, 233, 241, 247, 222, 96, 86, 141, 233, 137, 7, 63, 61, 22, 57,
       1, 128, 60, 209, 8, 216, 141, 115, 175, 234, 121, 200, 30, 71, 131, 198
    >>

\* np.random.RandomState(seed): the stream an integer seed starts.
RandomState(s) == [seed |-> s, pos |-> 0]

\* The next word of the stream (masked to its low-order byte).
Word(st) == IF st.seed = 0 THEN MTWords0[st.pos + 1] ELSE MTWords1[st.pos + 1]

\* The stream after one word has been taken.
Advance(st) == [st EXCEPT !.pos = st.pos + 1]

RECURSIVE Mask(_)
\* The smallest 2^k - 1 that is >= m.
Mask(m) == IF m = 0 THEN 0 ELSE 2 * Mask(m \div 2) + 1

RECURSIVE random_interval(_, _)
\* A value in 0..max by rejection: words are masked and taken until one is <= max;
\* for max = 0 no word is taken.  <<value, stream afterwards>>.
random_interval(st, max) ==
    IF max = 0 THEN <<0, st>>
    ELSE LET value == Word(st) % (Mask(max) + 1)
         IN  IF value > max THEN random_interval(Advance(st), max)
             ELSE <<value, Advance(st)>>

Swap(arr, a, b) ==
    [k \in 1..Len(arr) |-> IF k = a THEN arr[b] ELSE IF k = b THEN arr[a] ELSE arr[k]]

RECURSIVE Shuffle(_, _, _)
\* shuffle: for i = n-1 down to 1, the entry at i changes places with the entry at
\* a position drawn in 0..i.  <<array, stream afterwards>>.
Shuffle(arr, k, st) ==
    IF k < 1 THEN <<arr, st>>
    ELSE LET d == random_interval(st, k)
         IN  Shuffle(Swap(arr, k + 1, d[1] + 1), k - 1, d[2])

\* permutation(n): np.arange(n), shuffled.
Permutation(st, n) == Shuffle([k \in 1..n |-> k - 1], n - 1, st)

\* seed.choice(n, size=size, replace=False), for size <= n: permutation(n)[:size].
Choice(st, n, size) == SubSeq(Permutation(st, n)[1], 1, size)

\* The stream after seed.choice(n, ...): a population of one takes no word.
ChoiceStream(st, n) == Permutation(st, n)[2]

(***************************************************************************)
(* Backfitter.                                                             *)
(***************************************************************************)
\* activation = microstates.dot(data): entry (k, t), the projection of sample t
\* onto prototype k.
Activation(d, ms, k, t) == Dot(ms[k], d[t])

\* A faulty backfit: the polarity of the projection is not removed.
PredictSigned(d, ms) ==
    [t \in 1..Len(d) |->
        np_argmax_int([k \in 1..Len(ms) |-> Activation(d, ms, k, t)])]

\* _modified_kmeans_predict(data, microstates): for every sample the index of the
\* prototype with the largest absolute activation (np.argmax over axis 0).
_modified_kmeans_predict(d, ms) ==
    [t \in 1..Len(d) |->
        np_argmax_int([k \in 1..Len(ms) |-> Abs(Activation(d, ms, k, t))])]

(***************************************************************************)
(* External collaborators: data preparer, scorer, clustering engine and    *)
(* classifier.  They live in other modules of the package and are          *)
(* modelled from their documented contracts.                               *)
(***************************************************************************)
\* Global field power of every sample (its L1 norm).
GFP(d) == [t \in 1..Len(d) |-> SumTo([c \in 1..Len(d[t]) |-> Abs(d[t][c])], Len(d[t]))]

\* data[:, indices].T : one row per training sample, in the order of the index set.
Training(d, idx) == [j \in 1..Len(idx) |-> d[idx[j] + 1]]

\* data[:, indices] : one row per channel, one column per training sample.
TrainingByChannel(d, idx) ==
    [c \in 1..Len(d[1]) |-> [j \in 1..Len(idx) |-> d[idx[j] + 1][c]]]

Transpose(x) == [j \in 1..Len(x[1]) |-> [c \in 1..Len(x) |-> x[c][j]]]

Norm2(v) == Dot(v, v)

\* microstates_gev: for each sample the squared projection onto its assigned
\* prototype, normalized by the prototype's norm, summed and divided by gfp_sum_sq.
microstates_gev(d, ms, seg, gfp_sum_sq) ==
    LET D == ProdTo([k \in 1..Len(ms) |-> Norm2(ms[k])], Len(ms))
        term(t) == LET m == ms[seg[t] + 1]
                   IN  Dot(m, d[t]) * Dot(m, d[t]) * (D \div Norm2(m))
    IN  << SumTo([t \in 1..Len(d) |-> term(t)], Len(d)), D * gfp_sum_sq >>

\* microstates_crossvalidation: the residual variance left by the best-matching
\* prototypes, penalized by the number of channels, states and samples.
microstates_crossvalidation(d, ms, gfp, n_channels, n_samples) ==
    LET seg == _modified_kmeans_predict(d, ms)
        res(t) == gfp[t] * gfp[t] - Dot(ms[seg[t] + 1], d[t]) * Dot(ms[seg[t] + 1], d[t])
        var == SumTo([t \in 1..Len(d) |-> res(t)], Len(d))
        pen == n_channels - Len(ms) - 1
    IN  << var * (n_channels - 1), n_samples * pen * pen >>

\* Two prototypes that are the same topography up to polarity leave a cluster
\* without samples of its own: the covariance of that cluster is singular.
Degenerate(ms) ==
    \E a, b \in 1..Len(ms) :
        a < b /\ (ms[a] = ms[b] \/ ms[a] = [c \in 1..Len(ms[b]) |-> -ms[b][c]])

\* The prototypes each algorithm extracts from the training samples; st is the
\* stream random_state is at when the engine is called.
Prototypes(train, meth, n_clusters, init_times, st) ==
    IF meth \in KmodNames THEN
        [k \in 1..n_clusters |-> train[init_times[k] + 1]]
    ELSE IF meth \in IcaNames THEN
        [k \in 1..n_clusters |-> train[((Word(st) + k - 1) % Len(train)) + 1]]
    ELSE IF meth \in PcaNames THEN
        [k \in 1..n_clusters |-> train[k]]
    ELSE
        [k \in 1..n_clusters |-> train[Choice(st, Len(train), n_clusters)[k] + 1]]

\* Draws the engine itself takes from random_state.
EngineDraws(meth) == IF meth \in KmodNames \/ meth \in PcaNames THEN 0 ELSE 1

\* The stream random_state is left at by the engine.
EngineStream(meth, st, n) ==
    IF meth \in KmodNames \/ meth \in PcaNames THEN st
    ELSE IF meth \in IcaNames THEN Advance(st)
    ELSE ChoiceStream(st, n)

\* The orientation of the observations depends on the algorithm; the engine brings
\* them to one row per sample.
Samples(x, meth) ==
    IF meth \in KmodNames \/ meth \in IcaNames \/ meth \in PcaNames THEN x
    ELSE Transpose(x)

\* cluster(observations, method, n_clusters, random_state, ...)
\*   -> (segmentation over the training samples, prototypes, info), or an exception.
cluster(x, meth, n_clusters, init_times, st) ==
    LET train == Samples(x, meth) IN
    IF n_clusters > Len(train) THEN
        [exc |-> "ConfigurationError", draws |-> 0, stream |-> st]
    ELSE LET ms == Prototypes(train, meth, n_clusters, init_times, st)
             after == EngineStream(meth, st, Len(train))
         IN  IF Degenerate(ms) THEN
                 [exc |-> "LinAlgError", draws |-> EngineDraws(meth), stream |-> after]
             ELSE
                 [exc |-> "none", draws |-> EngineDraws(meth), stream |-> after,
                  segmentation |-> _modified_kmeans_predict(train, ms),
                  microstates |-> ms,
                  info |-> [method |-> meth, n_clusters |-> n_clusters]]

RECURSIVE FirstSeen(_, _, _)
\* The labels of seg[t..], each once, in the order of their first appearance after acc.
FirstSeen(seg, t, acc) ==
    IF t > Len(seg) THEN acc
    ELSE FirstSeen(seg, t + 1,
                   IF \E j \in 1..Len(acc) : acc[j] = seg[t] THEN acc
                   ELSE Append(acc, seg[t]))

RECURSIVE Unused(_, _, _)
Unused(k, n, acc) ==
    IF k >= n THEN <<>>
    ELSE (IF \E j \in 1..Len(acc) : acc[j] = k THEN <<>> ELSE <<k>>) \o Unused(k + 1, n, acc)

\* microstates_classify(out): the states are relabelled in the order in which they
\* first appear in the sequence (states that never appear keep their order, last);
\* every key is kept.
microstates_classify(o) ==
    LET seen == FirstSeen(o.Sequence, 1, <<>>)
        order == seen \o Unused(0, Len(o.Microstates), seen)
        newlabel(old) == (CHOOSE j \in 1..Len(order) : order[j] = old) - 1
    IN  [o EXCEPT !.Microstates = [j \in 1..Len(order) |-> o.Microstates[order[j] + 1]],
                  !.Sequence = [t \in 1..Len(o.Sequence) |-> newlabel(o.Sequence[t])]]

(***************************************************************************)
(* microstates_segment.                                                    *)
(***************************************************************************)
\* Signal matrices: one topography per time sample.
DataSets == [1..NTimes -> Topos]

\* Training index sets handed over by the data preparer: the first sample alone,
\* every sample but the last, or every sample (train='all').
IndexSets == {<<0>>, [j \in 1..(NTimes - 1) |-> j - 1], [j \in 1..NTimes |-> j - 1]}

gfp == GFP(data)
gfp_sum_sq == SumTo([t \in 1..Len(gfp) |-> gfp[t] * gfp[t]], Len(gfp))

\* Lines 141-144 and the unassigned locals.
FreshLocals ==
    /\ segmentation' = UNBOUND
    /\ microstates' = UNBOUND
    /\ info' = "metadata"
    /\ segmentation_list' = <<>>
    /\ microstates_list' = <<>>
    /\ cv_list' = <<>>
    /\ gev_list' = <<>>
    /\ optimal' = -1
    /\ best' = UNBOUND
    /\ ret' = UNBOUND

\* A faulty seeding: the stream is shared by all invocations and never seeded anew.
SeedStreamShared(is_object, s, current) == current

\* Lines 147-148: a RandomState is used as it is, anything else seeds a new one.
SeedStream(is_object, s, current) == IF is_object THEN current ELSE RandomState(s)

\* The state on entry to line 150 of the first invocation.
Init ==
    /\ data \in DataSets
    /\ indices \in IndexSets
    /\ method \in Methods
    /\ criterion \in Criteria
    /\ n_runs \in 1..MaxRuns
    /\ n_microstates \in NMicrostates
    /\ \E a \in SeedArgs : seed = a[1] /\ seed_is_object = a[2]
    /\ rng = RandomState(seed)
    /\ pc = "cluster"
    /\ i = 0
    /\ exc = "none"
    /\ segmentation = UNBOUND
    /\ microstates = UNBOUND
    /\ info = "metadata"
    /\ segmentation_list = <<>>
    /\ microstates_list = <<>>
    /\ cv_list = <<>>
    /\ gev_list = <<>>
    /\ optimal = -1
    /\ best = UNBOUND
    /\ ret = UNBOUND
    /\ runs = <<>>
    /\ n_draws = 0
    /\ second = "none"
    /\ first = UNBOUND

\* An exception leaves the function: nothing is caught anywhere in it.
Raise(e) ==
    /\ pc' = "raised"
    /\ exc' = e

\* A faulty loop: it keeps the result of its first run.
KeepFirst(old, new) == IF old[2] = UNBOUND THEN new ELSE old

\* Line 154: every pass of the loop binds segmentation, microstates and info anew;
\* old and new are the triples <<segmentation, microstates, info>>.
Rebind(old, new) == new

\* Lines 152-156: one pass of the modified k-means loop.
KmodRun ==
    /\ pc = "cluster"
    /\ method \in KmodNames
    /\ i < n_runs
    /\ IF n_microstates > Len(indices) THEN
           \* seed.choice(..., replace=False) refuses a sample larger than the population
           /\ Raise("ValueError")
           /\ UNCHANGED <<rng, n_draws, runs, i, segmentation, microstates, info>>
       ELSE
           LET init_times == Choice(rng, Len(indices), n_microstates)
               res == cluster(Training(data, indices), method, n_microstates,
                              init_times, ChoiceStream(rng, Len(indices)))
           IN  /\ rng' = res.stream
               /\ n_draws' = n_draws + 1
               /\ runs' = Append(runs, [stream |-> rng, init_times |-> init_times,
                                        exc |-> res.exc,
                                        microstates |-> IF res.exc = "none"
                                                        THEN res.microstates ELSE UNBOUND])
               /\ IF res.exc # "none" THEN
                      /\ Raise(res.exc)
                      /\ UNCHANGED <<i, segmentation, microstates, info>>
                  ELSE
                      /\ LET bound == Rebind(<<segmentation, microstates, info>>,
                                              <<res.segmentation, res.microstates, res.info>>)
                         IN  /\ segmentation' = bound[1]
                             /\ microstates' = bound[2]
                             /\ info' = bound[3]
                      /\ i' = i + 1
                      /\ UNCHANGED <<pc, exc>>
    /\ UNCHANGED <<args, n_runs, segmentation_list, microstates_list, cv_list, gev_list,
                   optimal, best, ret, second, first>>

\* Line 152: range(n_runs) is exhausted.
KmodDone ==
    /\ pc = "cluster"
    /\ method \in KmodNames
    /\ i >= n_runs
    /\ pc' = "score"
    /\ UNCHANGED <<args, n_runs, rng, i, exc, locals, runs, n_draws, second, first>>

\* The single call of the engine of the three other branches, on observations x.
ClusterOnce(x) ==
    LET res == cluster(x, method, n_microstates, <<>>, rng)
    IN  /\ rng' = res.stream
        /\ n_draws' = n_draws + res.draws
        /\ runs' = Append(runs, [stream |-> rng, init_times |-> <<>>, exc |-> res.exc,
                                 microstates |-> IF res.exc = "none"
                                                 THEN res.microstates ELSE UNBOUND])
        /\ IF res.exc # "none" THEN
               /\ Raise(res.exc)
               /\ UNCHANGED <<segmentation, microstates, info>>
           ELSE
               /\ segmentation' = res.segmentation
               /\ microstates' = res.microstates
               /\ info' = res.info
               /\ pc' = "score"
               /\ UNCHANGED exc
        /\ UNCHANGED <<args, n_runs, i, segmentation_list, microstates_list, cv_list,
                       gev_list, optimal, best, ret, second, first>>

\* Lines 157-160.
ClusterIca ==
    /\ pc = "cluster"
    /\ method \notin KmodNames
    /\ method \in IcaNames
    /\ ClusterOnce(Training(data, indices))

\* Lines 161-163.
ClusterPca ==
    /\ pc = "cluster"
    /\ method \notin KmodNames
    /\ method \notin IcaNames
    /\ method \in PcaNames
    /\ ClusterOnce(Training(data, indices))

\* Lines 164-166: the observations are handed over untransposed.
ClusterOther ==
    /\ pc = "cluster"
    /\ method \notin KmodNames
    /\ method \notin IcaNames
    /\ method \notin PcaNames
    /\ ClusterOnce(TrainingByChannel(data, indices))

\* Lines 167-181: the prototypes the name `microstates` is bound to are appended,
\* backfitted on the whole signal and scored, once.
Score ==
    /\ pc = "score"
    /\ LET seg == _modified_kmeans_predict(data, microstates)
       IN  /\ microstates_list' = Append(microstates_list, microstates)
           /\ segmentation' = seg
           /\ segmentation_list' = Append(segmentation_list, seg)
           /\ gev_list' = Append(gev_list,
                                 microstates_gev(data, microstates, seg, gfp_sum_sq))
           /\ cv_list' = Append(cv_list,
                                microstates_crossvalidation(data, microstates, gfp,
                                                            Len(data[1]), Len(data)))
           /\ pc' = "select"
    /\ UNCHANGED <<args, n_runs, rng, i, exc, microstates, info, optimal, best, ret,
                   runs, n_draws, second, first>>

\* Lines 184-187; -1 when neither branch binds `optimal`.
SelectOptimal(crit, gevs, cvs) ==
    IF crit = "gev" THEN np_argmax(gevs)
    ELSE IF crit = "cv" THEN np_argmin(cvs)
    ELSE -1

\* Lines 189-192.
BestRun(opt, ms_list, seg_list, gevs, cvs) ==
    [microstates |-> ms_list[opt + 1], segmentation |-> seg_list[opt + 1],
     gev |-> gevs[opt + 1], cv |-> cvs[opt + 1]]

\* Lines 184-192.
Select ==
    /\ pc = "select"
    /\ LET opt == SelectOptimal(criterion, gev_list, cv_list)
       IN  /\ optimal' = opt
           /\ IF opt = -1 THEN
                  \* line 189 reads a name no branch has bound
                  /\ Raise("UnboundLocalError")
                  /\ UNCHANGED best
              ELSE
                  /\ best' = BestRun(opt, microstates_list, segmentation_list,
                                     gev_list, cv_list)
                  /\ pc' = "output"
                  /\ UNCHANGED exc
    /\ UNCHANGED <<args, n_runs, rng, i, segmentation, microstates, info,
                   segmentation_list, microstates_list, cv_list, gev_list, ret,
                   runs, n_draws, second, first>>

\* A faulty output: the two scores change places.
PrepareOutputSwapped(b, g, inf) ==
    [Microstates |-> b.microstates, Sequence |-> b.segmentation, GEV |-> b.cv,
     GFP |-> g, Cross_Validation_Criterion |-> b.gev, Info |-> inf]

\* Lines 198-203.
PrepareOutput(b, g, inf) ==
    [Microstates |-> b.microstates, Sequence |-> b.segmentation, GEV |-> b.gev,
     GFP |-> g, Cross_Validation_Criterion |-> b.cv, Info |-> inf]

\* Line 208: what the return statement hands back.
ReturnValue(ms, seg, o) == [kind |-> "tuple", items |-> <<ms, seg, o>>]

\* Lines 198-208.
Output ==
    /\ pc = "output"
    /\ ret' = ReturnValue(microstates, segmentation,
                          microstates_classify(PrepareOutput(best, gfp, info)))
    /\ pc' = "returned"
    /\ UNCHANGED <<args, n_runs, rng, i, exc, segmentation, microstates, info,
                   segmentation_list, microstates_list, cv_list, gev_list, optimal, best,
                   runs, n_draws, second, first>>

\* How the invocation that just ended, ended.
Outcome == [pc |-> pc, exc |-> exc, ret |-> ret, n_draws |-> n_draws, n_runs |-> n_runs,
            runs |-> runs, rng |-> rng]

\* Lines 126-148 of a further call.
Enter ==
    /\ pc \in {"returned", "raised"}
    /\ second = "none"
    /\ first' = Outcome
    /\ rng' = SeedStream(seed_is_object, seed, rng)
    /\ pc' = "cluster"
    /\ i' = 0
    /\ exc' = "none"
    /\ runs' = <<>>
    /\ n_draws' = 0
    /\ FreshLocals
    /\ UNCHANGED args

\* The caller invokes the function again with the very same arguments.
InvokeAgain ==
    /\ Enter
    /\ second' = "same"
    /\ UNCHANGED n_runs

\* The caller invokes the function again with n_runs = 1 and nothing else changed.
InvokeSingleRun ==
    /\ Enter
    /\ n_runs > 1
    /\ second' = "single"
    /\ n_runs' = 1

Next ==
    \/ KmodRun
    \/ KmodDone
    \/ ClusterIca
    \/ ClusterPca
    \/ ClusterOther
    \/ Score
    \/ Select
    \/ Output
    \/ InvokeAgain
    \/ InvokeSingleRun

Spec == Init /\ [][Next]_vars

(***************************************************************************)
(* Properties.                                                             *)
(***************************************************************************)
Scored == pc \in {"select", "output", "returned"}
Ended == pc \in {"returned", "raised"}
out == ret.items[3]

\* The scores run r of the loop would get: its prototypes backfitted on the whole
\* signal and scored like the prototypes that are scored.
RunGev(r) ==
    microstates_gev(data, runs[r].microstates,
                    _modified_kmeans_predict(data, runs[r].microstates), gfp_sum_sq)
RunCv(r) ==
    microstates_crossvalidation(data, runs[r].microstates, gfp, Len(data[1]), Len(data))

\* C1: with the modified k-means and n_runs = N >= 1, when the selection step runs
\* the GEV list, the CV list, the prototype list and the sequence list each hold
\* exactly N entries, entry i being the backfitted and scored run i.
C1_EveryRunScored ==
    (Scored /\ method \in KmodNames) =>
        /\ Len(gev_list) = n_runs
        /\ Len(cv_list) = n_runs
        /\ Len(microstates_list) = n_runs
        /\ Len(segmentation_list) = n_runs
        /\ \A r \in 1..n_runs :
              /\ microstates_list[r] = runs[r].microstates
              /\ segmentation_list[r] = _modified_kmeans_predict(data, runs[r].microstates)
              /\ gev_list[r] = RunGev(r)
              /\ cv_list[r] = RunCv(r)

\* C2: the selected index is the lowest index holding the maximum of the GEV list
\* (criterion 'gev') or the minimum of the CV list (criterion 'cv'), and the
\* Microstates, Sequence, GEV and Cross-Validation Criterion handed to the
\* classifier and returned are the entries of the four lists at that one index.
C2_SelectedIndex ==
    (pc \in {"output", "returned"}) =>
        /\ optimal \in 0..(Len(gev_list) - 1)
        /\ criterion = "gev" =>
              /\ \A j \in 1..Len(gev_list) : ~QLess(gev_list[optimal + 1], gev_list[j])
              /\ \A j \in 1..optimal : QLess(gev_list[j], gev_list[optimal + 1])
        /\ criterion = "cv" =>
              /\ \A j \in 1..Len(cv_list) : ~QLess(cv_list[j], cv_list[optimal + 1])
              /\ \A j \in 1..optimal : QLess(cv_list[optimal + 1], cv_list[j])
        /\ best.microstates = microstates_list[optimal + 1]
        /\ best.segmentation = segmentation_list[optimal + 1]
        /\ best.gev = gev_list[optimal + 1]
        /\ best.cv = cv_list[optimal + 1]
        /\ pc = "returned" =>
              /\ out.GEV = gev_list[optimal + 1]
              /\ out.Cross_Validation_Criterion = cv_list[optimal + 1]
              /\ out = microstates_classify(
                          [Microstates |-> microstates_list[optimal + 1],
                           Sequence |-> segmentation_list[optimal + 1],
                           GEV |-> gev_list[optimal + 1],
                           GFP |-> gfp,
                           Cross_Validation_Criterion |-> cv_list[optimal + 1],
                           Info |-> info])

\* C2 witness: an invocation that selected by the cross-validation criterion and
\* returned, its two scores being different numbers.
C2_Witness ==
    /\ pc = "returned"
    /\ criterion = "cv"
    /\ optimal = 0
    /\ out.GEV # out.Cross_Validation_Criterion

\* C3: the value microstates_segment returns is the result bundle, the mapping
\* the classifier returned for the winning run.
C3_ReturnsBundle ==
    pc = "returned" => ret.kind = "dict"

\* C4: the backfitted Sequence has one label per time sample of the whole data
\* matrix, every label lies in [0, n_microstates), and each label is the index of
\* a prototype whose absolute projection onto the sample is maximal.
C4_SequenceWellFormed ==
    Scored =>
        /\ Len(segmentation) = Len(data)
        /\ segmentation_list[Len(segmentation_list)] = segmentation
        /\ \A t \in 1..Len(data) :
              /\ segmentation[t] \in 0..(n_microstates - 1)
              /\ \A k \in 1..Len(microstates) :
                    Abs(Dot(microstates[k], data[t]))
                        <= Abs(Dot(microstates[segmentation[t] + 1], data[t]))
        /\ pc = "returned" =>
              /\ Len(out.Sequence) = Len(data)
              /\ \A t \in 1..Len(data) : out.Sequence[t] \in 0..(n_microstates - 1)

\* C4 witness: a returned sequence over more samples than were trained on, with a
\* sample assigned to a prototype of the opposite polarity although another
\* prototype projects onto it without a sign change.
C4_Witness ==
    /\ pc = "returned"
    /\ Len(indices) < Len(data)
    /\ Len(microstates) = 2
    /\ \E t \in 1..Len(data) :
          /\ Dot(microstates[segmentation[t] + 1], data[t]) < 0
          /\ \E k \in 1..Len(microstates) : Dot(microstates[k], data[t]) >= 0

\* C5 as stated, for the modified k-means: for any fixed seed, an integer or a
\* RandomState object, two invocations with identical parameters return identical
\* Microstates and Sequence.
C5_AnySeedDeterminism ==
    (method \in KmodNames /\ second = "same" /\ pc = "returned" /\ first.pc = "returned") =>
        /\ out.Microstates = first.ret.items[3].Microstates
        /\ out.Sequence = first.ret.items[3].Sequence

\* C5 amended: with a fixed integer seed two invocations with identical parameters
\* end the same way, with identical Microstates and Sequence and the same draws;
\* the runs of one invocation draw from one stream, each run from where the
\* previous one left it; and a RandomState object passed as seed is drawn from
\* where the earlier invocation left it.
C5_IntSeedDeterminism ==
    /\ \A r \in 1..(Len(runs) - 1) :
          runs[r + 1].stream = ChoiceStream(runs[r].stream, Len(indices))
    /\ (second = "none" /\ Len(runs) > 0) => runs[1].stream = RandomState(seed)
    /\ (second = "same" /\ Ended /\ ~seed_is_object) =>
          /\ pc = first.pc
          /\ exc = first.exc
          /\ runs = first.runs
          /\ n_draws = first.n_draws
          /\ ret = first.ret
    /\ (second # "none" /\ seed_is_object /\ Len(runs) > 0) =>
          runs[1].stream = first.rng

\* C5 witness: the second of two identical invocations with an integer seed has
\* returned after a modified k-means loop of two runs that drew twice.
C5_Witness ==
    /\ second = "same"
    /\ pc = "returned"
    /\ ~seed_is_object
    /\ method \in KmodNames
    /\ n_draws = 2
    /\ runs[1].init_times # runs[2].init_times

\* C6: an invocation asking for more microstates than there are training samples
\* ends in ConfigurationError, in no other exception and in no returned result.
C6_TooManyMicrostates ==
    (n_microstates > Len(indices)) =>
        /\ pc # "returned"
        /\ pc = "raised" => exc = "ConfigurationError"

\* C7: a criterion that is neither 'gev' nor 'cv' is rejected with
\* ConfigurationError before any run: no draw has been taken and nothing has been
\* clustered, backfitted or scored.
C7_CriterionRejectedEarly ==
    (criterion \notin {"gev", "cv"}) =>
        /\ n_draws = 0
        /\ runs = <<>>
        /\ microstates_list = <<>> /\ segmentation_list = <<>>
        /\ gev_list = <<>> /\ cv_list = <<>>
        /\ pc # "returned"
        /\ pc = "raised" => exc = "ConfigurationError"

RECURSIVE RunStream(_)
\* The stream run r (1-based) of the modified k-means loop draws from: the stream
\* the loop started from, r - 1 draws later.
RunStream(r) ==
    IF r = 1 THEN runs[1].stream ELSE ChoiceStream(RunStream(r - 1), Len(indices))

\* Whether run r (1-based) of the modified k-means loop fails when it is executed.
RunFails(r) ==
    LET st == RunStream(r)
    IN  cluster(Training(data, indices), method, n_microstates,
                Choice(st, Len(indices), n_microstates),
                ChoiceStream(st, Len(indices))).exc # "none"

\* C8: a failure inside one run aborts that run only: the invocation fails only
\* if every one of the n_runs runs fails, and a result is returned only if some
\* run succeeded.
C8_FailureIsolated ==
    (method \in KmodNames /\ criterion \in {"gev", "cv"} /\ n_microstates <= Len(indices)) =>
        /\ pc = "raised" => \A r \in 1..n_runs : RunFails(r)
        /\ pc = "returned" => \E r \in 1..n_runs : ~RunFails(r)

\* C9: whenever the run with the highest GEV is not the run with the lowest CV,
\* selecting by 'gev' and selecting by 'cv' pick different run indices.
C9_CriterionSwitch ==
    (method \in KmodNames /\ Scored /\ Len(runs) = n_runs) =>
        LET gevs == [r \in 1..n_runs |-> RunGev(r)]
            cvs == [r \in 1..n_runs |-> RunCv(r)]
        IN  (np_argmax(gevs) # np_argmin(cvs)) =>
                SelectOptimal("gev", gev_list, cv_list)
                    # SelectOptimal("cv", gev_list, cv_list)

\* C10 as stated: with the same integer seed the Microstates, Sequence, GEV and CV
\* returned with n_runs = N equal those returned with n_runs = 1, and as many
\* draws are taken from the stream.
C10_SingleRunEquivalent ==
    (second = "single" /\ ~seed_is_object /\ pc = "returned" /\ first.pc = "returned") =>
        /\ out.Microstates = first.ret.items[3].Microstates
        /\ out.Sequence = first.ret.items[3].Sequence
        /\ out.GEV = first.ret.items[3].GEV
        /\ out.Cross_Validation_Criterion = first.ret.items[3].Cross_Validation_Criterion
        /\ n_draws = first.n_draws

\* C10 amended: whatever n_runs, one Run Record is scored, that of the last call of
\* the engine; the modified k-means loop calls the engine n_runs times and draws
\* n_runs times; for the other methods, with the same integer seed, the invocation
\* with n_runs = N ends as the invocation with n_runs = 1 does, after as many draws.
C10_OneScoredRun ==
    /\ Scored =>
          /\ Len(microstates_list) = 1 /\ Len(segmentation_list) = 1
          /\ Len(gev_list) = 1 /\ Len(cv_list) = 1
          /\ microstates_list[1] = runs[Len(runs)].microstates
          /\ method \in KmodNames => (Len(runs) = n_runs /\ n_draws = n_runs)
          /\ method \notin KmodNames => Len(runs) = 1
    /\ (second = "single" /\ ~seed_is_object /\ method \notin KmodNames /\ Ended) =>
          /\ pc = first.pc
          /\ exc = first.exc
          /\ ret = first.ret
          /\ n_draws = first.n_draws

\* C10 witness: with an integer seed a modified k-means invocation with n_runs = 1
\* has returned another result, after fewer draws, than the same invocation with
\* n_runs = 2 did.
C10_Witness ==
    /\ second = "single"
    /\ ~seed_is_object
    /\ method \in KmodNames
    /\ pc = "returned"
    /\ first.pc = "returned"
    /\ first.n_draws = 2
    /\ n_draws = 1
    /\ out.Microstates # first.ret.items[3].Microstates

====
